---- MODULE Spec2Model ----
(***************************************************************************)
(* A model of the resolv collision library: Circle (resolv/circle.go) and  *)
(* Space (the Space source file).  Shapes live on a heap indexed by object *)
(* identity, as Go pointers do: `shape == other` in the source is identity *)
(* of heap cells, never equality of geometry.  Circles and Spaces are the  *)
(* Shapes that test, move and are held by Spaces; Rectangles and Lines     *)
(* appear as the other Shape of a test.                                    *)
(*                                                                         *)
(* Coordinates are int32 in the source.  The model keeps every coordinate  *)
(* and every intermediate value far inside the int32 range, so no int32    *)
(* operation of the modelled runs wraps.                                   *)
(***************************************************************************)
EXTENDS Integers, Sequences, FiniteSets, TLC

VARIABLES heap, last, crashed

vars == <<heap, last, crashed>>

----------------------------------------------------------------------------
(* Bounds of the model.                                                    *)

\* Coordinates of the Space machine stay in 0..MaxCoord on both axes.
MaxCoord == 2
\* A Space holds at most MaxLen members.
MaxLen == 2
\* The geometry specification draws coordinates from -GeomCoord..GeomCoord.
GeomCoord == 3
\* The geometry specification draws radii, widths and heights from 0..GeomExtent.
GeomExtent == 2

----------------------------------------------------------------------------
(* Object identities and constructors.                                     *)

CircleIds == {"c1", "c2"}
RectangleIds == {"r1"}
LineIds == {"l1"}
SpaceIds == {"s1", "s2"}

Nil == "nil"

NewCircle(x, y, radius) == [kind |-> "Circle", X |-> x, Y |-> y, Radius |-> radius]

NewRectangle(x, y, w, h) == [kind |-> "Rectangle", X |-> x, Y |-> y, W |-> w, H |-> h]

NewLine(x, y, x2, y2) == [kind |-> "Line", X |-> x, Y |-> y, X2 |-> x2, Y2 |-> y2]

NewSpace == [kind |-> "Space", elems |-> <<>>]

Kind(h, id) == h[id].kind


----------------------------------------------------------------------------
(* Geometry primitives.                                                    *)

\* Largest r with r*r <= n: int32(math.Sqrt(float64(n))) for the small n of the model.
ISqrt(n) == CHOOSE r \in 0..n : r * r <= n /\ (r + 1) * (r + 1) > n

\* Distance returns an int32 (circle.go:29 compares it with an int32 sum and
\* circle.go:84 converts it to float64): the Euclidean distance truncated to
\* an integer, as Go's float-to-int conversion truncates.
Distance(x, y, x2, y2) ==
    LET dx == x - x2
        dy == y - y2
    IN ISqrt(dx * dx + dy * dy)

\* Line.GetLength: the int32 Distance between the two endpoints.
GetLength(l) == Distance(l.X, l.Y, l.X2, l.Y2)

\* Circle against Circle, circle.go:28-29.
CircleCircle(c, b) == Distance(c.X, c.Y, b.X, b.Y) <= c.Radius + b.Radius

\* Circle against Rectangle, circle.go:30-46.
CircleRectangle(c, b) ==
    LET closestX == IF c.X < b.X THEN b.X
                    ELSE IF c.X > b.X + b.W THEN b.X + b.W
                    ELSE c.X
        closestY == IF c.Y < b.Y THEN b.Y
                    ELSE IF c.Y > b.Y + b.H THEN b.Y + b.H
                    ELSE c.Y
    IN Distance(c.X, c.Y, closestX, closestY) <= c.Radius

(***************************************************************************)
(* Circle.isCollidingWithLine, circle.go:83-116.  AC, CB and BA are        *)
(* float64 conversions of int32 values, hence exact integers.  The float64 *)
(* comparisons are modelled by the same comparisons on exact rationals,    *)
(* cleared of denominators and square roots:                               *)
(*   p*(p-AC)*(p-CB)*(p-BA) = T/16 with                                    *)
(*       T = (AC+CB+BA)(-AC+CB+BA)(AC-CB+BA)(AC+CB-BA);                    *)
(*   T < 0: math.Sqrt returns NaN, h is NaN, `h <= Radius` is false;       *)
(*   BA = 0: then AC = CB, T = 0, h = 0/0 = NaN, `h <= Radius` is false    *)
(*       (float64 division by zero does not panic);                        *)
(*   otherwise h = sqrt(T)/(2*BA), and h <= Radius iff T <= 4*Radius^2*BA^2;*)
(*   cosC = (AC^2+CB^2-BA^2)/(2*AC*CB), with AC, CB > Radius >= 0;         *)
(*   BA >= newBA iff BA^2 >= primaryLine^2 + Radius^2                      *)
(*                            - 2*primaryLine*Radius*cosC,                 *)
(*       multiplied through by 2*AC*CB > 0.                                *)
(* For the operands of the model the gap between the two sides of each     *)
(* comparison, when they differ, is far above float64 rounding error.      *)
(***************************************************************************)
isCollidingWithLine(c, l) ==
    LET AC == Distance(c.X, c.Y, l.X, l.Y)
        CB == Distance(c.X, c.Y, l.X2, l.Y2)
        BA == GetLength(l)
        T == (AC + CB + BA) * (CB + BA - AC) * (AC + BA - CB) * (AC + CB - BA)
        hIsNaN == T < 0 \/ BA = 0
        primaryLine == IF AC < CB THEN CB ELSE AC
    IN IF AC <= c.Radius \/ CB <= c.Radius
       THEN TRUE
       ELSE IF ~hIsNaN /\ T <= 4 * (c.Radius * c.Radius) * BA * BA
            THEN BA * BA * (2 * AC * CB)
                   >= (primaryLine * primaryLine + c.Radius * c.Radius) * (2 * AC * CB)
                        - 2 * primaryLine * c.Radius * (AC * AC + CB * CB - BA * BA)
            ELSE FALSE

----------------------------------------------------------------------------
(* Results of calls.  A call either returns or exhausts the goroutine      *)
(* stack (a fatal error): that happens exactly when a call reappears on    *)
(* its own call stack with the same arguments and an unchanged heap, which *)
(* a Space that contains itself makes possible.  `ovf` marks such a call;  *)
(* `stk` is the set of Space calls on the stack.                           *)

Ret(b) == [ovf |-> FALSE, ret |-> b]

Overflow == [ovf |-> TRUE, ret |-> FALSE]

RetH(b, h) == [ovf |-> FALSE, ret |-> b, heap |-> h]

OverflowH(h) == [ovf |-> TRUE, ret |-> FALSE, heap |-> h]

----------------------------------------------------------------------------
(* IsColliding.                                                            *)

RECURSIVE ShapeIsColliding(_, _, _, _)
RECURSIVE SpaceIsCollidingLoop(_, _, _, _, _)

\* The loop of Space.IsColliding over the members from index i on.
SpaceIsCollidingLoop(h, elems, i, shape, stk) ==
    IF i > Len(elems)
    THEN Ret(FALSE)
    ELSE LET other == elems[i]
         IN IF other # shape
            THEN LET r == ShapeIsColliding(h, shape, other, stk)
                 IN IF r.ovf THEN Overflow
                    ELSE IF r.ret THEN Ret(TRUE)
                    ELSE SpaceIsCollidingLoop(h, elems, i + 1, shape, stk)
            ELSE SpaceIsCollidingLoop(h, elems, i + 1, shape, stk)

\* Space.IsColliding: whether `shape` collides with a member other than itself.
SpaceIsColliding(h, sp, shape, stk) ==
    IF <<sp, shape>> \in stk
    THEN Overflow
    ELSE SpaceIsCollidingLoop(h, h[sp].elems, 1, shape, stk \cup {<<sp, shape>>})

\* Circle.IsColliding without its *Space case: a Space falls through to the
\* warning and the test returns false.
CircleIsCollidingNoSpaceCase(h, c, other, stk) ==
    CASE Kind(h, other) = "Circle" -> Ret(CircleCircle(h[c], h[other]))
      [] Kind(h, other) = "Rectangle" -> Ret(CircleRectangle(h[c], h[other]))
      [] Kind(h, other) = "Line" -> Ret(isCollidingWithLine(h[c], h[other]))
      [] OTHER -> Ret(FALSE)

\* Circle.IsColliding: the type switch over the other Shape.
CircleIsColliding(h, c, other, stk) ==
    CASE Kind(h, other) = "Circle" -> Ret(CircleCircle(h[c], h[other]))
      [] Kind(h, other) = "Rectangle" -> Ret(CircleRectangle(h[c], h[other]))
      [] Kind(h, other) = "Line" -> Ret(isCollidingWithLine(h[c], h[other]))
      [] Kind(h, other) = "Space" -> SpaceIsColliding(h, other, c, stk)
      [] OTHER -> Ret(FALSE)

\* shape.IsColliding(other): dispatch on the dynamic type of the Shape interface.
ShapeIsColliding(h, shape, other, stk) ==
    CASE Kind(h, shape) = "Circle" -> CircleIsColliding(h, shape, other, stk)
      [] Kind(h, shape) = "Space" -> SpaceIsColliding(h, shape, other, stk)

----------------------------------------------------------------------------
(* WouldBeColliding.                                                       *)

\* Circle.WouldBeColliding without the move back on the Y axis.
CircleWouldBeCollidingNoRestoreY(h, c, other, dx, dy) ==
    LET h1 == [h EXCEPT ![c].X = @ + dx, ![c].Y = @ + dy]
        isColliding == CircleIsColliding(h1, c, other, {})
        h2 == [h1 EXCEPT ![c].X = @ - dx]
    IN IF isColliding.ovf THEN OverflowH(h1) ELSE RetH(isColliding.ret, h2)

\* Circle.WouldBeColliding: move, test, move back.
CircleWouldBeColliding(h, c, other, dx, dy) ==
    LET h1 == [h EXCEPT ![c].X = @ + dx, ![c].Y = @ + dy]
        isColliding == CircleIsColliding(h1, c, other, {})
        h2 == [h1 EXCEPT ![c].X = @ - dx, ![c].Y = @ - dy]
    IN IF isColliding.ovf THEN OverflowH(h1) ELSE RetH(isColliding.ret, h2)

RECURSIVE ShapeWouldBeColliding(_, _, _, _, _, _)
RECURSIVE SpaceWouldBeCollidingLoop(_, _, _, _, _, _, _)

\* The loop of Space.WouldBeColliding over the members from index i on.
SpaceWouldBeCollidingLoop(h, elems, i, other, dx, dy, stk) ==
    IF i > Len(elems)
    THEN RetH(FALSE, h)
    ELSE LET shape == elems[i]
         IN IF shape = other
            THEN RetH(FALSE, h)
            ELSE LET r == ShapeWouldBeColliding(h, shape, other, dx, dy, stk)
                 IN IF r.ovf THEN r
                    ELSE IF r.ret THEN RetH(TRUE, r.heap)
                    ELSE SpaceWouldBeCollidingLoop(r.heap, elems, i + 1, other, dx, dy, stk)

\* Space.WouldBeColliding.
SpaceWouldBeColliding(h, sp, other, dx, dy, stk) ==
    IF <<sp, other>> \in stk
    THEN OverflowH(h)
    ELSE SpaceWouldBeCollidingLoop(h, h[sp].elems, 1, other, dx, dy,
                                   stk \cup {<<sp, other>>})

\* shape.WouldBeColliding(other, dx, dy): dispatch on the dynamic type.
ShapeWouldBeColliding(h, shape, other, dx, dy, stk) ==
    CASE Kind(h, shape) = "Circle" -> CircleWouldBeColliding(h, shape, other, dx, dy)
      [] Kind(h, shape) = "Space" -> SpaceWouldBeColliding(h, shape, other, dx, dy, stk)

----------------------------------------------------------------------------
(* Membership.                                                             *)

Range(seq) == {seq[i] : i \in 1..Len(seq)}

\* The Shapes a Space holds (none for the other Shapes).
Members(h, id) == IF Kind(h, id) = "Space" THEN Range(h[id].elems) ELSE {}

RECURSIVE ReachFrom(_, _, _)
ReachFrom(h, frontier, seen) ==
    LET new == UNION {Members(h, x) : x \in frontier} \ seen
    IN IF new = {} THEN seen ELSE ReachFrom(h, new, seen \cup new)

\* Every Shape reachable from `id` through one or more membership steps.
Reach(h, id) == ReachFrom(h, {id}, {})

\* No Space at or below `id` contains itself: recursion over all members ends.
WellFounded(h, id) == \A s \in Reach(h, id) \cup {id} : s \notin Reach(h, s)

\* Space.Add of one Shape that is not the Space itself.
SpaceAdd(h, sp, shape) == [h EXCEPT ![sp].elems = Append(@, shape)]

\* Space.Add panics when handed the Space itself.
AddPanics(sp, shape) == shape = sp

RECURSIVE RemoveFirst(_, _)
RemoveFirst(seq, shape) ==
    IF seq = <<>> THEN <<>>
    ELSE IF Head(seq) = shape THEN Tail(seq)
    ELSE <<Head(seq)>> \o RemoveFirst(Tail(seq), shape)

\* Space.Remove of one Shape: its first occurrence goes.
SpaceRemove(h, sp, shape) == [h EXCEPT ![sp].elems = RemoveFirst(@, shape)]

\* Space.Clear.
SpaceClear(h, sp) == [h EXCEPT ![sp].elems = <<>>]

----------------------------------------------------------------------------
(* Positions.  These are evaluated on well-founded Spaces only.            *)

RECURSIVE ShapeMove(_, _, _, _)
RECURSIVE SpaceMoveLoop(_, _, _, _, _)

\* The loop of Space.Move (and of Space.SetXY) over the members from index i on.
SpaceMoveLoop(h, elems, i, dx, dy) ==
    IF i > Len(elems)
    THEN h
    ELSE SpaceMoveLoop(ShapeMove(h, elems[i], dx, dy), elems, i + 1, dx, dy)

\* Space.Move.
SpaceMove(h, sp, dx, dy) == SpaceMoveLoop(h, h[sp].elems, 1, dx, dy)

\* shape.Move(dx, dy): BasicShape.Move adds the delta to X and Y, a Space
\* moves its members.
ShapeMove(h, shape, dx, dy) ==
    IF Kind(h, shape) = "Space"
    THEN SpaceMove(h, shape, dx, dy)
    ELSE [h EXCEPT ![shape].X = @ + dx, ![shape].Y = @ + dy]

RECURSIVE ShapeGetXY(_, _)

\* Space.GetXY: the position of the first member, (0, 0) when there is none.
SpaceGetXY(h, sp) ==
    IF Len(h[sp].elems) > 0 THEN ShapeGetXY(h, h[sp].elems[1]) ELSE <<0, 0>>

\* shape.GetXY(): BasicShape.GetXY returns (X, Y).
ShapeGetXY(h, shape) ==
    IF Kind(h, shape) = "Space" THEN SpaceGetXY(h, shape)
    ELSE <<h[shape].X, h[shape].Y>>

\* Space.SetXY.
SpaceSetXY(h, sp, x, y) ==
    IF Len(h[sp].elems) > 0
    THEN LET xy0 == SpaceGetXY(h, sp)
             dx == x - xy0[1]
             dy == y - xy0[2]
         IN SpaceMoveLoop(h, h[sp].elems, 1, dx, dy)
    ELSE h

----------------------------------------------------------------------------
(* Resolve.                                                                *)

Abs(n) == IF n < 0 THEN -n ELSE n

Max(a, b) == IF a < b THEN b ELSE a

\* Integer division rounding toward zero.
TruncDiv(a, b) == IF a >= 0 THEN a \div b ELSE -((-a) \div b)

\* Collision{}: the zero value, which reports no collision.
ZeroCollision ==
    [Colliding |-> FALSE, ShapeA |-> Nil, ShapeB |-> Nil,
     ResolveX |-> 0, ResolveY |-> 0, RemainderX |-> 0, RemainderY |-> 0]

\* The k-th of n equal steps along (dx, dy), rounded toward zero.
SubDelta(dx, dy, k, n) == <<TruncDiv(dx * k, n), TruncDiv(dy * k, n)>>

RECURSIVE RetreatLoop(_, _, _, _, _, _, _)

\* One step of the retreat, given the swept test w of the k-th sub-displacement.
RetreatStep(h, moving, obstacle, dx, dy, n, k, w) ==
    IF w.ovf THEN -1
    ELSE IF ~w.ret THEN k
    ELSE RetreatLoop(h, moving, obstacle, dx, dy, n, k - 1)

\* The largest k < n, tried from k downwards, whose sub-displacement does not
\* trigger the swept test; 0 when none does; -1 when a test overflows.
RetreatLoop(h, moving, obstacle, dx, dy, n, k) ==
    IF k = 0
    THEN 0
    ELSE RetreatStep(h, moving, obstacle, dx, dy, n, k,
                     ShapeWouldBeColliding(h, moving, obstacle,
                                           TruncDiv(dx * k, n), TruncDiv(dy * k, n), {}))

\* The Collision Resolve builds once the full-displacement test `full` and
\* the retreat step k with its sub-displacement d are known.
ResolveOutcome(moving, obstacle, dx, dy, full, k, d) ==
    IF full.ovf THEN [ovf |-> TRUE, res |-> ZeroCollision]
    ELSE IF ~full.ret
    THEN [ovf |-> FALSE,
          res |-> [ZeroCollision EXCEPT !.ShapeA = moving,
                                        !.ResolveX = dx, !.ResolveY = dy]]
    ELSE IF k < 0 THEN [ovf |-> TRUE, res |-> ZeroCollision]
    ELSE [ovf |-> FALSE,
          res |-> [Colliding |-> TRUE, ShapeA |-> moving, ShapeB |-> obstacle,
                   ResolveX |-> d[1], ResolveY |-> d[2],
                   RemainderX |-> dx - d[1], RemainderY |-> dy - d[2]]]

\* The retreat of Resolve: the largest safe step k of n and its Collision.
ResolveRetreat(moving, obstacle, dx, dy, n, full, k) ==
    ResolveOutcome(moving, obstacle, dx, dy, full, k, SubDelta(dx, dy, k, n))

\* Resolve(moving, obstacle, dx, dy): the Collision of one moving Shape
\* against one obstacle.
Resolve(h, moving, obstacle, dx, dy) ==
    IF dx = 0 /\ dy = 0
    THEN [ovf |-> FALSE,
          res |-> [ZeroCollision EXCEPT !.ShapeA = moving]]
    ELSE ResolveRetreat(moving, obstacle, dx, dy, Max(Abs(dx), Abs(dy)),
                        ShapeWouldBeColliding(h, moving, obstacle, dx, dy, {}),
                        RetreatLoop(h, moving, obstacle, dx, dy,
                                    Max(Abs(dx), Abs(dy)), Max(Abs(dx), Abs(dy)) - 1))

RECURSIVE SpaceResolveLoopNoBreak(_, _, _, _, _, _, _, _)
\* The loop of Space.Resolve without its break: a later member that would be
\* colliding overwrites the Collision of an earlier one.
SpaceResolveLoopNoBreak(h, elems, i, checkingShape, deltaX, deltaY, res, trace) ==
    IF i > Len(elems)
    THEN [ovf |-> FALSE, res |-> res, heap |-> h, trace |-> trace]
    ELSE LET other == elems[i]
         IN IF other = checkingShape
            THEN SpaceResolveLoopNoBreak(h, elems, i + 1, checkingShape,
                                         deltaX, deltaY, res, trace)
            ELSE LET w == ShapeWouldBeColliding(h, checkingShape, other, deltaX, deltaY, {})
                     r == Resolve(w.heap, checkingShape, other, deltaX, deltaY)
                     t == Append(trace, other)
                 IN IF w.ovf
                    THEN [ovf |-> TRUE, res |-> res, heap |-> w.heap, trace |-> t]
                    ELSE IF ~w.ret
                    THEN SpaceResolveLoopNoBreak(w.heap, elems, i + 1, checkingShape,
                                                 deltaX, deltaY, res, t)
                    ELSE IF r.ovf
                    THEN [ovf |-> TRUE, res |-> res, heap |-> w.heap, trace |-> t]
                    ELSE SpaceResolveLoopNoBreak(w.heap, elems, i + 1, checkingShape,
                                                 deltaX, deltaY, r.res, t)

RECURSIVE SpaceResolveLoop(_, _, _, _, _, _, _, _)

\* The body of the if in Space.Resolve: res = Resolve(...), break if Colliding.
SpaceResolveHit(h, elems, i, checkingShape, deltaX, deltaY, res, t, r) ==
    IF r.ovf
    THEN [ovf |-> TRUE, res |-> res, heap |-> h, trace |-> t]
    ELSE IF r.res.Colliding
    THEN [ovf |-> FALSE, res |-> r.res, heap |-> h, trace |-> t]
    ELSE SpaceResolveLoop(h, elems, i + 1, checkingShape, deltaX, deltaY, r.res, t)

\* One member of Space.Resolve, given w, what
\* checkingShape.WouldBeColliding(other, deltaX, deltaY) returned.
SpaceResolveStep(elems, i, checkingShape, deltaX, deltaY, res, t, w) ==
    IF w.ovf
    THEN [ovf |-> TRUE, res |-> res, heap |-> w.heap, trace |-> t]
    ELSE IF ~w.ret
    THEN SpaceResolveLoop(w.heap, elems, i + 1, checkingShape, deltaX, deltaY, res, t)
    ELSE SpaceResolveHit(w.heap, elems, i, checkingShape, deltaX, deltaY, res, t,
                         Resolve(w.heap, checkingShape, elems[i], deltaX, deltaY))

\* The loop of Space.Resolve over the members from index i on.  `trace` lists
\* the members handed to checkingShape.WouldBeColliding, in order.
SpaceResolveLoop(h, elems, i, checkingShape, deltaX, deltaY, res, trace) ==
    IF i > Len(elems)
    THEN [ovf |-> FALSE, res |-> res, heap |-> h, trace |-> trace]
    ELSE IF elems[i] = checkingShape
    THEN SpaceResolveLoop(h, elems, i + 1, checkingShape, deltaX, deltaY, res, trace)
    ELSE SpaceResolveStep(elems, i, checkingShape, deltaX, deltaY, res,
                          Append(trace, elems[i]),
                          ShapeWouldBeColliding(h, checkingShape, elems[i],
                                                deltaX, deltaY, {}))

\* Space.Resolve.
SpaceResolve(h, sp, checkingShape, deltaX, deltaY) ==
    SpaceResolveLoop(h, h[sp].elems, 1, checkingShape, deltaX, deltaY, ZeroCollision, <<>>)

----------------------------------------------------------------------------
(* The Space machine: the caller's operations on a heap of Shapes.         *)

\* The record of the latest call: its arguments and what it returned.
Call(op, self, other, dx, dy, ret, res, trace) ==
    [op |-> op, self |-> self, other |-> other, dx |-> dx, dy |-> dy,
     ret |-> ret, res |-> res, trace |-> trace]

Ids == CircleIds \cup RectangleIds \cup LineIds \cup SpaceIds

\* The Shapes the caller moves, tests and resolves.
Movable == CircleIds \cup SpaceIds

\* The Shapes the caller asks `shape` about with IsColliding: a Space is
\* asked about Circles and Spaces, whose IsColliding it calls in turn.
TestableBy(shape) == IF shape \in SpaceIds THEN Movable ELSE Ids

\* The Shapes the caller hands to sp.Add and sp.Remove.
AddableTo(sp) == IF sp = "s1" THEN {"c1", "c2", "s1", "s2"} ELSE {"c2", "s1", "s2"}

\* The displacements the caller moves Shapes by.
MoveDeltas == {<<1, 0>>, <<-1, 0>>}

\* The displacements the caller tests and resolves.
Deltas == {<<0, 0>>, <<1, 0>>, <<-1, 1>>}

\* Every Circle of the heap lies in the window of the model.
InWindow(h) ==
    \A c \in CircleIds : h[c].X \in 0..MaxCoord

\* The caller repositions a Space along the X axis: the Y it hands to SetXY
\* is the Y that GetXY reports.
RootY(h, sp) == IF WellFounded(h, sp) THEN SpaceGetXY(h, sp)[2] ELSE 0

\* No call is in progress and the result of the latest one has been taken.
IdleCall == Call("idle", Nil, Nil, 0, 0, FALSE, ZeroCollision, <<>>)

\* The caller is free to issue its next call.
Ready == ~crashed /\ last = IdleCall

Init ==
    /\ heap = [id \in Ids |->
                 CASE id = "c1" -> NewCircle(0, 0, 1)
                   [] id = "c2" -> NewCircle(2, 0, 0)
                   [] id = "r1" -> NewRectangle(1, 1, 1, 0)
                   [] id = "l1" -> NewLine(0, 2, 2, 2)
                   [] OTHER -> NewSpace]
    /\ last = IdleCall
    /\ crashed = FALSE

\* sp.Add(shape): a panic when shape is sp, an append otherwise.
Add(sp, shape) ==
    /\ Ready
    /\ IF AddPanics(sp, shape)
       THEN /\ crashed' = TRUE
            /\ heap' = heap
       ELSE /\ Len(heap[sp].elems) < MaxLen
            /\ crashed' = FALSE
            /\ heap' = SpaceAdd(heap, sp, shape)
    /\ last' = Call("Add", sp, shape, 0, 0, FALSE, ZeroCollision, <<>>)

\* sp.Remove(shape).
Remove(sp, shape) ==
    /\ Ready
    /\ heap' = SpaceRemove(heap, sp, shape)
    /\ last' = Call("Remove", sp, shape, 0, 0, FALSE, ZeroCollision, <<>>)
    /\ UNCHANGED crashed

\* sp.Clear().
Clear(sp) ==
    /\ Ready
    /\ heap' = SpaceClear(heap, sp)
    /\ last' = Call("Clear", sp, Nil, 0, 0, FALSE, ZeroCollision, <<>>)
    /\ UNCHANGED crashed

\* shape.Move(dx, dy).  On a Space that contains itself the recursion over
\* the members never ends and the stack overflows.
Move(shape, dx, dy) ==
    /\ Ready
    /\ IF WellFounded(heap, shape)
       THEN /\ InWindow(ShapeMove(heap, shape, dx, dy))
            /\ heap' = ShapeMove(heap, shape, dx, dy)
            /\ crashed' = FALSE
       ELSE /\ heap' = heap
            /\ crashed' = TRUE
    /\ last' = Call("Move", shape, Nil, dx, dy, FALSE, ZeroCollision, <<>>)

\* sp.SetXY(x, y).
SetXY(sp, x, y) ==
    /\ Ready
    /\ IF Len(heap[sp].elems) = 0 \/ WellFounded(heap, sp)
       THEN /\ InWindow(SpaceSetXY(heap, sp, x, y))
            /\ heap' = SpaceSetXY(heap, sp, x, y)
            /\ crashed' = FALSE
       ELSE /\ heap' = heap
            /\ crashed' = TRUE
    /\ last' = Call("SetXY", sp, Nil, x, y, FALSE, ZeroCollision, <<>>)

\* shape.IsColliding(other).
IsCollidingCall(shape, other) ==
    /\ Ready
    /\ LET r == ShapeIsColliding(heap, shape, other, {})
       IN /\ crashed' = r.ovf
          /\ last' = Call("IsColliding", shape, other, 0, 0, r.ret, ZeroCollision, <<>>)
    /\ UNCHANGED heap

\* shape.WouldBeColliding(other, dx, dy).
WouldBeCollidingCall(shape, other, dx, dy) ==
    /\ Ready
    /\ LET r == ShapeWouldBeColliding(heap, shape, other, dx, dy, {})
       IN /\ crashed' = r.ovf
          /\ heap' = r.heap
          /\ last' = Call("WouldBeColliding", shape, other, dx, dy, r.ret,
                          ZeroCollision, <<>>)

\* sp.Resolve(checkingShape, deltaX, deltaY).
ResolveCall(sp, checkingShape, deltaX, deltaY) ==
    /\ Ready
    /\ LET r == SpaceResolve(heap, sp, checkingShape, deltaX, deltaY)
       IN /\ crashed' = r.ovf
          /\ heap' = r.heap
          /\ last' = Call("Resolve", sp, checkingShape, deltaX, deltaY,
                          r.res.Colliding, r.res, r.trace)

\* The caller takes the result of the latest call.
Return ==
    /\ ~crashed
    /\ last # IdleCall
    /\ last' = IdleCall
    /\ UNCHANGED <<heap, crashed>>

Next ==
    \/ \E sp \in SpaceIds : \E shape \in AddableTo(sp) : Add(sp, shape)
    \/ \E sp \in SpaceIds : \E shape \in AddableTo(sp) : Remove(sp, shape)
    \/ \E sp \in SpaceIds : Clear(sp)
    \/ \E shape \in Movable, d \in MoveDeltas : Move(shape, d[1], d[2])
    \/ \E sp \in SpaceIds, x \in 0..MaxCoord : SetXY(sp, x, RootY(heap, sp))
    \/ \E shape \in Movable : \E other \in TestableBy(shape) : IsCollidingCall(shape, other)
    \/ \E shape \in Movable, other \in Ids, d \in Deltas :
          WouldBeCollidingCall(shape, other, d[1], d[2])
    \/ \E sp \in SpaceIds, shape \in Movable, d \in Deltas :
          ResolveCall(sp, shape, d[1], d[2])
    \/ Return

Spec == Init /\ [][Next]_vars

----------------------------------------------------------------------------
(* The geometry specification: one Circle and one other Shape, drawn from  *)
(* bounded sets, and the Circle's IsColliding applied to the pair.         *)

GeomRange == -GeomCoord..GeomCoord

GeomShapes ==
    {<<"c2", NewCircle(x, y, r)>> : x \in GeomRange, y \in GeomRange, r \in 0..GeomExtent}
    \cup {<<"r1", NewRectangle(x, y, w, hh)>> :
             x \in GeomRange, y \in GeomRange, w \in 0..GeomExtent, hh \in 0..GeomExtent}
    \cup {<<"l1", NewLine(x, y, x2, y2)>> :
             x \in GeomRange, y \in GeomRange, x2 \in GeomRange, y2 \in GeomRange}

GeomInit ==
    /\ \E cx \in 0..1, r \in 0..GeomExtent, o \in GeomShapes :
          heap = ("c1" :> NewCircle(cx, 0, r)) @@ (o[1] :> o[2])
    /\ last = IdleCall
    /\ crashed = FALSE

GeomNext ==
    \/ \E other \in DOMAIN heap \ {"c1"} : IsCollidingCall("c1", other)
    \/ Return

GeomSpec == GeomInit /\ [][GeomNext]_vars

----------------------------------------------------------------------------
(* Exact geometry, on squared distances.                                   *)

SqDist(x, y, x2, y2) == (x - x2) * (x - x2) + (y - y2) * (y - y2)

Clamp(v, lo, hi) == IF v < lo THEN lo ELSE IF v > hi THEN hi ELSE v

\* Whether the point (px, py) is within distance r of the segment l, whose
\* endpoints differ: by projection onto the segment, free of square roots.
WithinOfSegment(px, py, r, l) ==
    LET ex == l.X2 - l.X
        ey == l.Y2 - l.Y
        len2 == ex * ex + ey * ey
        t == (px - l.X) * ex + (py - l.Y) * ey
        cross == (px - l.X) * ey - (py - l.Y) * ex
    IN IF t <= 0 THEN SqDist(px, py, l.X, l.Y) <= r * r
       ELSE IF t >= len2 THEN SqDist(px, py, l.X2, l.Y2) <= r * r
       ELSE cross * cross <= r * r * len2

\* The latest call was self.IsColliding(other) of a Circle against a Shape
\* of kind k, and it returned.
IsCollidingReturned(k) ==
    /\ last.op = "IsColliding"
    /\ ~crashed
    /\ Kind(heap, last.self) = "Circle"
    /\ Kind(heap, last.other) = k

----------------------------------------------------------------------------
(* Claims about the Space machine.                                         *)

\* The latest call was `op`, and it returned.
Returned(op) == last.op = op /\ ~crashed

\* C1: a WouldBeColliding call of a Circle or of a Space that returns leaves
\* every Shape of the heap, the caller and the other Shape included, where
\* it was, whatever it returns.
C1_WouldBeCollidingKeepsPositions ==
    [][(last'.op = "WouldBeColliding" /\ ~crashed') => heap' = heap]_vars

\* A Space of two members, a nested Space among them, was tested under a
\* displacement on both axes and the test returned true.
C1_Witness ==
    /\ Returned("WouldBeColliding")
    /\ last.ret
    /\ last.dx # 0
    /\ last.dy # 0
    /\ Kind(heap, last.self) = "Space"
    /\ Len(heap[last.self].elems) = 2
    /\ \E m \in Members(heap, last.self) : Kind(heap, m) = "Space"

\* C5: IsColliding is symmetric between two Circles and between a Circle and
\* a Space, whether or not the Space holds the Circle and however it nests.
C5_IsCollidingSymmetric ==
    Returned("IsColliding") =>
        LET a == last.self
            b == last.other
            back == ShapeIsColliding(heap, b, a, {})
        IN ({Kind(heap, a), Kind(heap, b)} \in {{"Circle"}, {"Circle", "Space"}}) =>
              (~back.ovf /\ back.ret = last.ret)

\* A Circle was tested against a Space that holds it and a nested Space, and
\* the test returned true.
C5_Witness ==
    /\ Returned("IsColliding")
    /\ last.ret
    /\ Kind(heap, last.self) = "Circle"
    /\ Kind(heap, last.other) = "Space"
    /\ last.self \in Members(heap, last.other)
    /\ \E m \in Members(heap, last.other) : Kind(heap, m) = "Space"

\* C6: no Space is reachable from itself through membership, because Add
\* aborts whenever it would make a Space contain itself, directly or through
\* other Spaces.
C6_NoSpaceContainsItself == \A sp \in SpaceIds : sp \notin Reach(heap, sp)

\* The members of `elems` up to index k that are not checkingShape.
Consulted(elems, k, checkingShape) ==
    LET NotSelf(m) == m # checkingShape
    IN SelectSeq(SubSeq(elems, 1, k), NotSelf)

\* C7: Space.Resolve hands the members to checkingShape.WouldBeColliding in
\* Space order, never checkingShape itself; it returns the Collision of the
\* first member that would be colliding and whose Resolve reports a
\* collision, consulting no member after it; when no member would be
\* colliding, the returned Collision reports none.
C7_ResolveReturnsFirstBlocking ==
    Returned("Resolve") =>
        LET elems == heap[last.self].elems
            chk == last.other
            Would(i) == /\ elems[i] # chk
                        /\ ShapeWouldBeColliding(heap, chk, elems[i], last.dx, last.dy, {}).ret
            Hit(i) == /\ Would(i)
                      /\ Resolve(heap, chk, elems[i], last.dx, last.dy).res.Colliding
            hits == {i \in 1..Len(elems) : Hit(i)}
            first == CHOOSE i \in hits : \A j \in hits : i <= j
        IN /\ chk \notin Range(last.trace)
           /\ hits # {} =>
                 /\ last.res = Resolve(heap, chk, elems[first], last.dx, last.dy).res
                 /\ last.trace = Consulted(elems, first, chk)
           /\ hits = {} => last.trace = Consulted(elems, Len(elems), chk)
           /\ (\A i \in 1..Len(elems) : ~Would(i)) => ~last.res.Colliding

\* Resolve returned the Collision of a member and left a later member, which
\* is neither that member nor checkingShape, unconsulted.
C7_Witness ==
    /\ Returned("Resolve")
    /\ last.res.Colliding
    /\ \E m \in Members(heap, last.self) : m # last.other /\ m \notin Range(last.trace)

\* C8: Space.WouldBeColliding returns true if and only if some member of the
\* Space, other than the other Shape itself, would be colliding with the
\* other Shape after the move; the order of the members does not matter.
C8_SpaceWouldBeCollidingIffSomeMember ==
    (/\ Returned("WouldBeColliding")
     /\ Kind(heap, last.self) = "Space"
     /\ WellFounded(heap, last.self)
     /\ WellFounded(heap, last.other)) =>
        (last.ret <=>
            \E m \in Members(heap, last.self) :
                /\ m # last.other
                /\ ShapeWouldBeColliding(heap, m, last.other, last.dx, last.dy, {}).ret)

\* C9: after sp.SetXY(x, y) on a Space that is not empty, GetXY reports
\* (x, y) and every member has moved by the delta that took the first member
\* there, so that the offsets between members are those before the call.
C9_SetXYPlacesRootKeepsOffsets ==
    [][(/\ last'.op = "SetXY"
        /\ ~crashed'
        /\ Len(heap[last'.self].elems) > 0) =>
          LET sp == last'.self
              xy0 == SpaceGetXY(heap, sp)
          IN /\ SpaceGetXY(heap', sp) = <<last'.dx, last'.dy>>
             /\ \A m \in Members(heap, sp) :
                   /\ ShapeGetXY(heap', m)[1] - ShapeGetXY(heap, m)[1] = last'.dx - xy0[1]
                   /\ ShapeGetXY(heap', m)[2] - ShapeGetXY(heap, m)[2] = last'.dy - xy0[2]]_vars

====
